---- MODULE Spec2Model ----
(***************************************************************************)
(* Model of the LangGraph agent builder (langgraph-agent-builder/src):     *)
(* AgentBuilder compiles an AgentConfig into the fallback StateGraph /     *)
(* MockLangGraphApp, LangGraphAgent.invoke runs it over a Python dict      *)
(* State, the node units of core/nodes.py mutate that dict, and            *)
(* StateManager (core/state.py) wraps a State dict of its own.             *)
(*                                                                         *)
(* Python objects that are shared by reference (lists, nested dicts) live  *)
(* in two heaps, `lists` and `dicts`; a State dict holds references        *)
(* (indices) into them, so aliasing between the caller's input mapping,    *)
(* a run's State and a snapshot is visible in the model.                   *)
(***************************************************************************)
EXTENDS Integers, Sequences, FiniteSets, TLC

VARIABLES
    cfg,        \* the AgentConfig handed to AgentBuilder.build
    agent,      \* "unbuilt" | "built" | "build_failed"
    graph,      \* the compiled StateGraph: nodes (insertion order), edges, entry_point
    lists,      \* heap of Python list objects (message histories), indexed by reference
    dicts,      \* heap of Python dict objects (tools_output, metadata, context)
    runs,       \* one record per invocation of LangGraphAgent.invoke
    sm,         \* StateManager.state (a State dict) and the snapshots handed out
    tp,         \* ToolNodeBuilder._prepare_tool_input: its arguments and result
    memory,     \* MemorySaver.memory of the checkpointer build creates: thread id -> State
    cv          \* construction of a NodeConfig and of an AgentConfig: arguments and outcome

vars == <<cfg, agent, graph, lists, dicts, runs, sm, tp, memory, cv>>

-----------------------------------------------------------------------------
(* Bounds of the model *)

MaxNodes == 3       \* most nodes declared in one AgentConfig
MaxRuns == 2        \* invocations of one built agent
MaxUpdates == 3     \* StateManager operations in one behaviour
MaxAttempts == 2    \* largest max_attempts of a retry policy

-----------------------------------------------------------------------------
(* Python values *)

NONE == "<None>"                 \* Python None
END == "__end__"                 \* agent_builder.py: END sentinel of the fallback

Get(d, k, default) == IF k \in DOMAIN d THEN d[k] ELSE default

Put(d, k, v) == [x \in (DOMAIN d) \cup {k} |-> IF x = k THEN v ELSE d[x]]

Del(d, k) == [x \in (DOMAIN d) \ {k} |-> d[x]]

\* dict.update(u): last write wins, key by key
DictUpdate(d, u) ==
    [x \in (DOMAIN d) \cup (DOMAIN u) |-> IF x \in DOMAIN u THEN u[x] ELSE d[x]]

EmptyDict == [x \in {} |-> NONE]

\* messages: the plain dicts built by _prepare_initial_state, and message objects
DictMessage(role, content) == [kind |-> "dict", role |-> role, content |-> content]
SystemMessage(content) == [kind |-> "SystemMessage", role |-> "system", content |-> content]
AIMessage(content) == [kind |-> "AIMessage", role |-> "ai", content |-> content]
HumanMessage(content) == [kind |-> "HumanMessage", role |-> "human", content |-> content]

IsPrefix(s, t) == Len(s) <= Len(t) /\ SubSeq(t, 1, Len(s)) = s

\* a Python value as a tool input mapping sees it: a string is its sequence of
\* characters (so that startswith and slicing are computed), an int its number
PyStr(chars) == [t |-> "str", chars |-> chars, num |-> 0]
PyInt(n) == [t |-> "int", chars |-> <<>>, num |-> n]
PyRef(r) == [t |-> "ref", chars |-> <<>>, num |-> r]
PyBool(b) == [t |-> "bool", chars |-> <<>>, num |-> IF b THEN 1 ELSE 0]
PyNone == [t |-> "none", chars |-> <<>>, num |-> 0]

\* "".join(chars)
RECURSIVE Join(_)
Join(chars) == IF chars = <<>> THEN "" ELSE Head(chars) \o Join(Tail(chars))

-----------------------------------------------------------------------------
(* config/models.py: NodeConfig, AgentConfig *)

DefaultMaxIterations == 10      \* AgentConfig.max_iterations default

NodeTypes == {"llm", "tool", "conditional", "human_input", "custom"}

NodeName(i) == "n" \o ToString(i)

\* the branch mapping of the conditional node declared at position i of n:
\* result "a" goes to the next declared node, "b" to the one after it
BranchesOf(i, n) ==
    [r \in {x \in {"a", "b"} : (IF x = "a" THEN i + 1 ELSE i + 2) <= n} |->
        NodeName(IF r = "a" THEN i + 1 ELSE i + 2)]

\* the input mapping of a tool node: the first declared node passes the last
\* message (tool_config None), a later one maps state values and a literal
ToolConfigOf(i) ==
    IF i = 1 THEN EmptyDict
    ELSE [k \in {"expression", "limit"} |->
            IF k = "expression" THEN PyStr(<<"$", "i", "n", "p", "u", "t">>) ELSE PyInt(5)]

NodeConfig(i, type, n) ==
    [name |-> NodeName(i),
     type |-> type,
     description |-> NONE,
     prompt |-> IF type = "llm" THEN "prompt_" \o NodeName(i) ELSE NONE,
     tool |-> IF type = "tool" THEN "calculator" ELSE NONE,
     tool_config |-> IF type = "tool" THEN ToolConfigOf(i) ELSE EmptyDict,
     condition |-> IF type = "conditional" THEN "state['output']" ELSE NONE,
     branches |-> IF type = "conditional" THEN BranchesOf(i, n) ELSE EmptyDict,
     retry_config |-> EmptyDict]

AgentConfig(wf, types, entry, k) ==
    [workflow_type |-> wf,
     nodes |-> [i \in 1..Len(types) |-> NodeConfig(i, types[i], Len(types))],
     edges |-> <<>>,
     entry_point |-> entry,
     max_iterations |-> k]

\* the same configuration with retry_config = {"max_attempts": m} on every node
WithRetry(c, m) ==
    [c EXCEPT !.nodes = [i \in 1..Len(c.nodes) |->
        [c.nodes[i] EXCEPT !.retry_config = [k \in {"max_attempts"} |-> m]]]]

TypeSeqs == UNION {[1..n -> NodeTypes] : n \in 1..MaxNodes}

NodeNames(c) == {c.nodes[i].name : i \in 1..Len(c.nodes)}

\* the configurations the engine is run on: every sequence of node types, as a
\* sequential workflow (entry point unset or set to the last node), as a
\* conditional workflow, and as a cyclic workflow with iteration limit 1 or 2
Configs ==
    UNION {{AgentConfig("sequential", ts, e, DefaultMaxIterations) :
                e \in {NONE, NodeName(Len(ts))}} : ts \in TypeSeqs}
    \cup {AgentConfig("conditional", ts, NONE, DefaultMaxIterations) : ts \in TypeSeqs}
    \cup {AgentConfig("cyclic", ts, NONE, k) : ts \in TypeSeqs, k \in {1, 2}}

-----------------------------------------------------------------------------
(* builders/agent_builder.py: the fallback StateGraph and AgentBuilder *)

\* what the builder is constructed with: the tool registry (the default tool
\* and the calculator examples/agent_with_tools.py registers) and a handler
\* for every node name
ToolRegistry == {"web_search", "calculator"}
CustomHandlers == {NodeName(i) : i \in 1..(MaxNodes + 1)}

\* StateGraph.add_node and StateGraph.add_conditional_edges: self.nodes[name] = func
\* on a dict that keeps insertion order
add_node(items, name, func) ==
    IF \E i \in 1..Len(items) : items[i].name = name
    THEN [i \in 1..Len(items) |->
            IF items[i].name = name THEN [name |-> name, func |-> func] ELSE items[i]]
    ELSE Append(items, [name |-> name, func |-> func])

RECURSIVE AddNodes(_, _)
AddNodes(nodes, items) ==
    IF nodes = <<>> THEN items
    ELSE AddNodes(Tail(nodes), add_node(items, Head(nodes).name, Head(nodes)))

NonConditional(nodes, n) ==
    SelectSeq([i \in 1..n |-> i], LAMBDA i : nodes[i].type # "conditional")

_add_sequential_edges(nodes) ==
    LET idx == NonConditional(nodes, Len(nodes) - 1)
        chain == [j \in 1..Len(idx) |-> <<nodes[idx[j]].name, nodes[idx[j] + 1].name>>]
        last == IF nodes # <<>> /\ nodes[Len(nodes)].type # "conditional"
                THEN << <<nodes[Len(nodes)].name, END>> >> ELSE <<>>
    IN chain \o last

\* a parallel wiring that chains the nodes before ending
_add_parallel_edges_chained(nodes) == _add_sequential_edges(nodes)

_add_parallel_edges(nodes) ==
    LET idx == NonConditional(nodes, Len(nodes))
    IN [j \in 1..Len(idx) |-> <<nodes[idx[j]].name, END>>]

ExplicitEdges(edges) == [j \in 1..Len(edges) |-> <<edges[j].source, edges[j].target>>]

_add_conditional_edges(config) ==
    IF config.edges # <<>> THEN ExplicitEdges(config.edges)
    ELSE _add_sequential_edges(config.nodes)

\* a cyclic wiring that ends after the last node instead of closing the ring
_add_cyclic_edges_open(config) == _add_conditional_edges(config)

_add_cyclic_edges(config) ==
    IF config.edges # <<>> THEN ExplicitEdges(config.edges)
    ELSE LET nodes == config.nodes
             idx == NonConditional(nodes, Len(nodes))
         IN [j \in 1..Len(idx) |->
                <<nodes[idx[j]].name, nodes[(idx[j] % Len(nodes)) + 1].name>>]

\* graph construction that accepts a custom workflow without edges
BuildError_custom_unchecked(config) ==
    IF \E i \in 1..Len(config.nodes) :
          config.nodes[i].type = "tool" /\ config.nodes[i].tool \notin ToolRegistry
    THEN "Tool not found in registry"
    ELSE IF \E i \in 1..Len(config.nodes) :
          config.nodes[i].type = "custom" /\ config.nodes[i].name \notin CustomHandlers
    THEN "Custom handler not found for node"
    ELSE NONE

\* graph construction that resolves tools and handlers when a node first runs
BuildError_unresolved_unchecked(config) ==
    IF config.workflow_type = "custom" /\ config.edges = <<>>
    THEN "Custom workflow requires edges to be specified"
    ELSE NONE

\* the first error graph construction raises, or NONE
BuildError(config) ==
    IF \E i \in 1..Len(config.nodes) :
          config.nodes[i].type = "tool" /\ config.nodes[i].tool \notin ToolRegistry
    THEN "Tool not found in registry"
    ELSE IF \E i \in 1..Len(config.nodes) :
          config.nodes[i].type = "custom" /\ config.nodes[i].name \notin CustomHandlers
    THEN "Custom handler not found for node"
    ELSE IF config.workflow_type = "custom" /\ config.edges = <<>>
    THEN "Custom workflow requires edges to be specified"
    ELSE NONE

\* AgentBuilder._add_custom_edges, once config.edges is known not to be
\* empty: an edge without a condition is added as it is; for an edge with a
\* condition graph.add_conditional_edges(edge.source, lambda state: ...) puts
\* the lambda in self.nodes[edge.source].  The lambda reads the loop variable
\* edge when it is called, after the loop: every rule then sees the last
\* edge of the list
_add_custom_edges(config, items) ==
    LET edges == config.edges
        last == edges[Len(edges)]
        rule(e) == [type |-> "edge_rule", name |-> e.source, edge |-> last]
        RECURSIVE rules(_, _)
        rules(j, its) ==
            IF j > Len(edges) THEN its
            ELSE rules(j + 1, IF edges[j].condition # NONE
                              THEN add_node(its, edges[j].source, rule(edges[j]))
                              ELSE its)
        direct == SelectSeq(edges, LAMBDA e : e.condition = NONE)
    IN [nodes |-> rules(1, items), edges |-> ExplicitEdges(direct)]

_build_graph(config) ==
    [nodes |-> IF config.workflow_type = "custom"
               THEN _add_custom_edges(config, AddNodes(config.nodes, <<>>)).nodes
               ELSE AddNodes(config.nodes, <<>>),
     edges |-> CASE config.workflow_type = "sequential" -> _add_sequential_edges(config.nodes)
                 [] config.workflow_type = "parallel" -> _add_parallel_edges(config.nodes)
                 [] config.workflow_type = "conditional" -> _add_conditional_edges(config)
                 [] config.workflow_type = "cyclic" -> _add_cyclic_edges(config)
                 [] OTHER -> _add_custom_edges(config, AddNodes(config.nodes, <<>>)).edges,
     entry_point |-> IF config.entry_point # NONE THEN config.entry_point
                     ELSE config.nodes[1].name]

NoGraph == [nodes |-> <<>>, edges |-> <<>>, entry_point |-> NONE]

\* AgentBuilder._create_checkpointer: MemorySaver(), whose memory is a new
\* empty dict (no configuration of the model sets config.checkpointer)
_create_checkpointer(config) == EmptyDict

\* AgentBuilder.build; graph.compile(checkpointer=checkpointer) of the fallback
\* StateGraph hands the nodes and edges alone to MockLangGraphApp
Build ==
    /\ agent = "unbuilt"
    /\ IF BuildError(cfg) # NONE
       THEN agent' = "build_failed" /\ graph' = graph /\ memory' = memory
       ELSE agent' = "built" /\ graph' = _build_graph(cfg)
            /\ memory' = _create_checkpointer(cfg)
    /\ UNCHANGED <<cfg, lists, dicts, runs, sm, tp, cv>>

-----------------------------------------------------------------------------
(* core/nodes.py: the node execution units.  A unit takes the node's config, *)
(* the context c = [st, lists, dicts] (the State dict it is called with and  *)
(* the heaps) and the outcome ext = [exc, val] of its external collaborator, *)
(* and yields the mutated context and what the function returned or raised.  *)

Truthy(s) == s \notin {NONE, ""}

ReturnsState == [kind |-> "state", d |-> EmptyDict, v |-> NONE]
ReturnsDict(d) == [kind |-> "dict", d |-> d, v |-> NONE]
ReturnsValue(v) == [kind |-> "value", d |-> EmptyDict, v |-> v]
Raises(e) == [kind |-> "raise", d |-> EmptyDict, v |-> e]

\* the except clause every unit ends with: state["error"] = str(e); raise
Except(st, c, e) ==
    [st |-> Put(st, "error", e), lists |-> c.lists, dicts |-> c.dicts, ret |-> Raises(e)]

\* state.get("messages", []) as a list value
MessagesOf(st, heap) == IF "messages" \in DOMAIN st THEN heap[st["messages"]] ELSE <<>>

\* a State dict as the tool input mapping reads it
PyView(st) ==
    [k \in DOMAIN st |->
        CASE k \in {"messages", "metadata", "context", "tools_output"} -> PyRef(st[k])
          [] k = "iterations" -> PyInt(st[k])
          [] k = "needs_human_input" -> PyBool(st[k])
          [] OTHER -> IF st[k] = NONE THEN PyNone ELSE PyStr(<<st[k]>>)]

AttributeError == "'dict' object has no attribute 'content'"

\* a lookup state[state_key] in place of state.get(state_key)
_prepare_tool_input_subscript(state, messages, tool_config) ==
    IF \E key \in DOMAIN tool_config :
          /\ tool_config[key].t = "str" /\ tool_config[key].chars # <<>>
          /\ Head(tool_config[key].chars) = "$"
          /\ Join(Tail(tool_config[key].chars)) \notin DOMAIN state
    THEN [raised |-> "KeyError", tool_input |-> EmptyDict]
    ELSE [raised |-> NONE,
          tool_input |->
            [key \in DOMAIN tool_config |->
                LET value == tool_config[key]
                IN IF value.t = "str" /\ value.chars # <<>> /\ Head(value.chars) = "$"
                   THEN state[Join(Tail(value.chars))]
                   ELSE value]]

\* ToolNodeBuilder._prepare_tool_input
_prepare_tool_input(state, messages, tool_config) ==
    IF DOMAIN tool_config # {}
    THEN [raised |-> NONE,
          tool_input |->
            [key \in DOMAIN tool_config |->
                LET value == tool_config[key]
                IN IF value.t = "str" /\ value.chars # <<>> /\ Head(value.chars) = "$"
                   THEN Get(state, Join(Tail(value.chars)), PyNone)
                   ELSE value]]
    ELSE IF messages = <<>>
    THEN [raised |-> NONE, tool_input |-> EmptyDict]
    ELSE IF messages[Len(messages)].kind = "dict"
    THEN [raised |-> AttributeError, tool_input |-> EmptyDict]
    ELSE [raised |-> NONE,
          tool_input |-> [key \in {"input"} |-> PyStr(<<messages[Len(messages)].content>>)]]

\* an LLM unit that prepends its prompt whatever the history holds
llm_node_always_prompt(config, c, ext) ==
    LET st1 == Put(c.st, "current_node", config.name)
        messages == MessagesOf(st1, c.lists)
        sent == IF Truthy(config.prompt)
                THEN <<SystemMessage(config.prompt)>> \o messages
                ELSE messages
    IN IF ext.exc # NONE THEN Except(st1, c, ext.exc)
       ELSE [st |-> Put(Put(st1, "messages", Len(c.lists) + 1), "output", ext.val),
             lists |-> Append(c.lists, sent \o <<AIMessage(ext.val)>>),
             dicts |-> c.dicts,
             ret |-> ReturnsState]

\* LLMNodeBuilder.build.llm_node
llm_node(config, c, ext) ==
    LET st1 == Put(c.st, "current_node", config.name)
        messages == MessagesOf(st1, c.lists)
        sent == IF Truthy(config.prompt)
                   /\ ~ \E i \in 1..Len(messages) : messages[i].kind = "SystemMessage"
                THEN <<SystemMessage(config.prompt)>> \o messages
                ELSE messages
    IN IF ext.exc # NONE THEN Except(st1, c, ext.exc)
       ELSE [st |-> Put(Put(st1, "messages", Len(c.lists) + 1), "output", ext.val),
             lists |-> Append(c.lists, sent \o <<AIMessage(ext.val)>>),
             dicts |-> c.dicts,
             ret |-> ReturnsState]

\* a tool unit that stores its result in a tool-output map of its own
tool_node_fresh_map(config, c, ext) ==
    LET st1 == Put(c.st, "current_node", config.name)
        prep == _prepare_tool_input(PyView(st1), MessagesOf(st1, c.lists), config.tool_config)
    IN IF prep.raised # NONE THEN Except(st1, c, prep.raised)
       ELSE IF ext.exc # NONE THEN Except(st1, c, ext.exc)
       ELSE LET outRef == Len(c.dicts) + 1
                dicts1 == Append(c.dicts, EmptyDict)
                st2 == Put(st1, "tools_output", outRef)
                hasMsg == "messages" \in DOMAIN st2
                msgRef == IF hasMsg THEN st2["messages"] ELSE Len(c.lists) + 1
                lists1 == IF hasMsg THEN c.lists ELSE Append(c.lists, <<>>)
                said == AIMessage("Tool " \o config.tool \o " result: " \o ext.val)
            IN [st |-> Put(st2, "messages", msgRef),
                lists |-> [lists1 EXCEPT ![msgRef] = Append(@, said)],
                dicts |-> [dicts1 EXCEPT ![outRef] = Put(@, config.name, ext.val)],
                ret |-> ReturnsState]

\* ToolNodeBuilder.build.tool_node
tool_node(config, c, ext) ==
    LET st1 == Put(c.st, "current_node", config.name)
        prep == _prepare_tool_input(PyView(st1), MessagesOf(st1, c.lists), config.tool_config)
    IN IF prep.raised # NONE THEN Except(st1, c, prep.raised)
       ELSE IF ext.exc # NONE THEN Except(st1, c, ext.exc)
       ELSE LET hasOut == "tools_output" \in DOMAIN st1
                outRef == IF hasOut THEN st1["tools_output"] ELSE Len(c.dicts) + 1
                dicts1 == IF hasOut THEN c.dicts ELSE Append(c.dicts, EmptyDict)
                st2 == Put(st1, "tools_output", outRef)
                hasMsg == "messages" \in DOMAIN st2
                msgRef == IF hasMsg THEN st2["messages"] ELSE Len(c.lists) + 1
                lists1 == IF hasMsg THEN c.lists ELSE Append(c.lists, <<>>)
                said == AIMessage("Tool " \o config.tool \o " result: " \o ext.val)
            IN [st |-> Put(st2, "messages", msgRef),
                lists |-> [lists1 EXCEPT ![msgRef] = Append(@, said)],
                dicts |-> [dicts1 EXCEPT ![outRef] = Put(@, config.name, ext.val)],
                ret |-> ReturnsState]

\* ConditionalNodeBuilder._parse_condition.condition_func: an evaluation that
\* raises is answered by False
condition_func(ext) == IF ext.exc # NONE THEN "False" ELSE ext.val

\* ConditionalNodeBuilder.build.conditional_node
conditional_node(config, c, ext) ==
    LET st1 == Put(c.st, "current_node", config.name)
        result == condition_func(ext)
        next_node == Get(config.branches, result, Get(config.branches, "default", "END"))
    IN [st |-> st1, lists |-> c.lists, dicts |-> c.dicts, ret |-> ReturnsValue(next_node)]

\* a human-input unit that leaves the answer in the State
human_input_node_keeps_answer(config, c, ext) ==
    LET st1 == Put(c.st, "current_node", config.name)
        prompt == IF Truthy(config.description) THEN config.description
                  ELSE "Please provide input:"
        st2 == Put(Put(st1, "needs_human_input", TRUE), "human_input_prompt", prompt)
    IN IF "human_input" \in DOMAIN st2
       THEN LET hasMsg == "messages" \in DOMAIN st2
                msgRef == IF hasMsg THEN st2["messages"] ELSE Len(c.lists) + 1
                lists1 == IF hasMsg THEN c.lists ELSE Append(c.lists, <<>>)
            IN [st |-> Put(Put(st2, "messages", msgRef), "needs_human_input", FALSE),
                lists |-> [lists1 EXCEPT
                             ![msgRef] = Append(@, HumanMessage(st2["human_input"]))],
                dicts |-> c.dicts,
                ret |-> ReturnsState]
       ELSE [st |-> st2, lists |-> c.lists, dicts |-> c.dicts, ret |-> ReturnsState]

\* HumanInputNodeBuilder.build.human_input_node
human_input_node(config, c, ext) ==
    LET st1 == Put(c.st, "current_node", config.name)
        prompt == IF Truthy(config.description) THEN config.description
                  ELSE "Please provide input:"
        st2 == Put(Put(st1, "needs_human_input", TRUE), "human_input_prompt", prompt)
    IN IF "human_input" \in DOMAIN st2
       THEN LET hasMsg == "messages" \in DOMAIN st2
                msgRef == IF hasMsg THEN st2["messages"] ELSE Len(c.lists) + 1
                lists1 == IF hasMsg THEN c.lists ELSE Append(c.lists, <<>>)
            IN [st |-> Del(Put(Put(st2, "messages", msgRef), "needs_human_input", FALSE),
                           "human_input"),
                lists |-> [lists1 EXCEPT
                             ![msgRef] = Append(@, HumanMessage(st2["human_input"]))],
                dicts |-> c.dicts,
                ret |-> ReturnsState]
       ELSE [st |-> st2, lists |-> c.lists, dicts |-> c.dicts, ret |-> ReturnsState]

\* CustomNodeBuilder.build.custom_node; the handler is the caller's: it returns
\* the State dict it was given, a new dict (here one with an output and a
\* message list of its own), a value that is no dict, or it raises
custom_node(config, c, ext) ==
    LET st1 == Put(c.st, "current_node", config.name)
    IN IF ext.exc # NONE THEN Except(st1, c, ext.exc)
       ELSE IF ext.val = "state"
       THEN [st |-> st1, lists |-> c.lists, dicts |-> c.dicts, ret |-> ReturnsState]
       ELSE IF ext.val = "dict"
       THEN [st |-> st1,
             lists |-> Append(c.lists, <<AIMessage("handled")>>),
             dicts |-> c.dicts,
             ret |-> ReturnsDict([k \in {"output", "messages"} |->
                        IF k = "output" THEN "handled" ELSE Len(c.lists) + 1])]
       ELSE [st |-> st1, lists |-> c.lists, dicts |-> c.dicts, ret |-> ReturnsValue(ext.val)]

\* the fallback of tenacity's retry(stop=..., wait=...): its decorator returns
\* func itself, so what a call of the decorated unit does is what one call of
\* func does
retry(stop, func_call) == func_call

\* LLMNodeBuilder._apply_retry and ToolNodeBuilder._apply_retry
_apply_retry(func_call, retry_config) ==
    retry(Get(retry_config, "max_attempts", 3), func_call)

\* what a call leaves behind for the next call on the same State dict
Ctx(out) == [st |-> out.st, lists |-> out.lists, dicts |-> out.dicts]

\* the unit that _apply_retry decorates: the llm_node or tool_node closure
retried_func(config, c, ext) ==
    IF config.type = "llm" THEN llm_node(config, c, ext) ELSE tool_node(config, c, ext)

\* the attempts of a retried unit that raised: each is one call of the unit
\* on the State the one before it left
RECURSIVE attempts(_, _, _)
attempts(config, k, c) ==
    IF k = 0 THEN c
    ELSE attempts(config, k - 1,
                  Ctx(retried_func(config, c,
                           [exc |-> IF config.type = "llm" THEN "ProviderError"
                                    ELSE "tool failed",
                            val |-> NONE, prior |-> 0])))

\* tenacity's retry called without reraise=True: an exception of the last
\* attempt leaves as RetryError
RetryErrorOf(last) ==
    IF last.ret.kind = "raise" THEN [last EXCEPT !.ret = Raises("RetryError")] ELSE last

\* _apply_retry where tenacity is installed: retry(stop=stop_after_attempt(
\* max_attempts), wait=...)(func) calls func(state) again, with the same State
\* dict, after each attempt that raised; ext.prior is the number of attempts
\* that raised before the last one
tenacity_retry(config, c, ext) ==
    RetryErrorOf(retried_func(config, attempts(config, ext.prior, c), [ext EXCEPT !.prior = 0]))

\* NodeFactory.create_node: the unit built for a node config; the builders of
\* LLM and tool nodes wrap it when config.retry_config is set, with the
\* fallback decorator or with tenacity's
create_node(config, c, ext) ==
    CASE config.type = "llm" ->
            IF config.retry_config # EmptyDict
            THEN IF ext.prior > 0 THEN tenacity_retry(config, c, ext)
                 ELSE _apply_retry(llm_node(config, c, ext), config.retry_config)
            ELSE llm_node(config, c, ext)
      [] config.type = "tool" ->
            IF config.retry_config # EmptyDict
            THEN IF ext.prior > 0 THEN tenacity_retry(config, c, ext)
                 ELSE _apply_retry(tool_node(config, c, ext), config.retry_config)
            ELSE tool_node(config, c, ext)
      [] config.type = "conditional" -> conditional_node(config, c, ext)
      [] config.type = "human_input" -> human_input_node(config, c, ext)
      [] config.type = "edge_rule" ->
            \* the lambda of _add_custom_edges:
            \* edge.target if eval(edge.condition, {"state": state}) else END
            [st |-> c.st, lists |-> c.lists, dicts |-> c.dicts,
             ret |-> IF ext.exc # NONE THEN Raises(ext.exc)
                     ELSE ReturnsValue(IF ext.val = "True" THEN config.edge.target ELSE END)]
      [] OTHER -> custom_node(config, c, ext)

\* what the external collaborator of a unit may do: the LLM provider, the
\* tool, the condition evaluator, the custom handler.  prior counts the
\* attempts that failed before this one, which only a node with a retry
\* policy has, and only where tenacity is installed: up to max_attempts - 1
\* of them before an attempt that succeeds, and max_attempts - 1 of them
\* before the failure that ends the retrying
Outcome(exc, val) == [exc |-> exc, val |-> val, prior |-> 0]

Outcomes(config) ==
    LET retried(base) ==
            LET m == Get(config.retry_config, "max_attempts", 1)
            IN base \cup UNION {{[o EXCEPT !.prior = k] :
                                    k \in {j \in 1..(m - 1) : o.exc = NONE \/ j = m - 1}} :
                                  o \in base}
    IN CASE config.type = "llm" ->
            retried({Outcome(NONE, "resp_" \o config.name), Outcome("ProviderError", NONE)})
      [] config.type = "tool" ->
            retried({Outcome(NONE, "42"), Outcome("tool failed", NONE)})
      [] config.type = "conditional" ->
            {Outcome(NONE, "a"), Outcome(NONE, "b"), Outcome(NONE, "other"),
             Outcome("NameError", NONE)}
      [] config.type = "human_input" -> {Outcome(NONE, NONE)}
      [] config.type = "edge_rule" ->
            IF config.edge.condition = NONE
            THEN {Outcome("TypeError", NONE)}
            ELSE {Outcome(NONE, "True"), Outcome(NONE, "False"), Outcome("NameError", NONE)}
      [] OTHER ->
            {Outcome(NONE, "state"), Outcome(NONE, "dict"), Outcome(NONE, "handled"),
             Outcome("handler failed", NONE)}

-----------------------------------------------------------------------------
(* core/state.py: StateManager *)

\* StateManager._get_default_state: a new dict with a new list and two new dicts
_get_default_state(ls, ds) ==
    [st |-> [k \in {"messages", "input", "output", "current_node", "error",
                    "metadata", "context", "iterations"} |->
                CASE k = "messages" -> Len(ls) + 1
                  [] k = "input" -> ""
                  [] k = "metadata" -> Len(ds) + 1
                  [] k = "context" -> Len(ds) + 2
                  [] k = "iterations" -> 0
                  [] OTHER -> NONE],
     lists |-> Append(ls, <<>>),
     dicts |-> ds \o <<EmptyDict, EmptyDict>>]

\* the updates a caller hands to StateManager.update: scalar keys, an unknown
\* key, and updates that carry a message list of their own (msgs)
SMUpdates ==
    {[d |-> [k \in {"output"} |-> "o1"], has_messages |-> FALSE, msgs |-> <<>>],
     [d |-> [k \in {"error", "extra"} |-> "x1"], has_messages |-> FALSE, msgs |-> <<>>],
     [d |-> EmptyDict, has_messages |-> TRUE, msgs |-> <<>>],
     [d |-> [k \in {"output"} |-> "o2"], has_messages |-> TRUE,
      msgs |-> <<DictMessage("assistant", "m2")>>]}

SMMessages == {DictMessage("user", "m0"), DictMessage("assistant", "m1")}

NoSM == [state |-> EmptyDict, snaps |-> <<>>, ops |-> 0]

\* StateManager.update: self.state.update(updates)
update(state, updates) == DictUpdate(state, updates)

SMUpdate(u) ==
    /\ sm.ops < MaxUpdates
    /\ IF ~ u.has_messages
       THEN /\ sm' = [sm EXCEPT !.state = update(sm.state, u.d), !.ops = @ + 1]
            /\ lists' = lists
       ELSE /\ sm' = [sm EXCEPT !.state = update(sm.state, Put(u.d, "messages", Len(lists) + 1)),
                                !.ops = @ + 1]
            /\ lists' = Append(lists, u.msgs)
    /\ UNCHANGED <<cfg, agent, graph, dicts, runs, tp, memory, cv>>

\* StateManager.increment_iterations
SMIncrementIterations ==
    /\ sm.ops < MaxUpdates
    /\ sm' = [sm EXCEPT !.state = Put(@, "iterations", @["iterations"] + 1), !.ops = @ + 1]
    /\ UNCHANGED <<cfg, agent, graph, lists, dicts, runs, tp, memory, cv>>

\* StateManager.add_message: appends to the list the State holds
SMAddMessage(m) ==
    /\ sm.ops < MaxUpdates
    /\ IF "messages" \in DOMAIN sm.state
       THEN /\ lists' = [lists EXCEPT ![sm.state["messages"]] = Append(@, m)]
            /\ sm' = [sm EXCEPT !.ops = @ + 1]
       ELSE /\ lists' = Append(lists, <<m>>)
            /\ sm' = [sm EXCEPT !.state = Put(@, "messages", Len(lists) + 1), !.ops = @ + 1]
    /\ UNCHANGED <<cfg, agent, graph, dicts, runs, tp, memory, cv>>

\* StateManager.set_error and StateManager.clear_error
SMSetError(e) ==
    /\ sm.ops < MaxUpdates
    /\ sm' = [sm EXCEPT !.state = Put(@, "error", e), !.ops = @ + 1]
    /\ UNCHANGED <<cfg, agent, graph, lists, dicts, runs, tp, memory, cv>>

\* StateManager.snapshot: dict(self.state), a copy of the top level only
snapshot(state) == state

SMSnapshot ==
    /\ sm.ops < MaxUpdates
    /\ sm' = [sm EXCEPT !.snaps = Append(@, snapshot(sm.state)), !.ops = @ + 1]
    /\ UNCHANGED <<cfg, agent, graph, lists, dicts, runs, tp, memory, cv>>

-----------------------------------------------------------------------------
(* builders/agent_builder.py: LangGraphAgent and MockLangGraphApp *)

RunIds == 1..MaxRuns

StrInput(x) == [kind |-> "str", s |-> x, d |-> EmptyDict]
DictInput(d) == [kind |-> "dict", s |-> NONE, d |-> d]
NoInput == [kind |-> "none", s |-> NONE, d |-> EmptyDict]

\* the objects the caller holds before any invocation: a message list
\* (reference 1 of lists) and a tool-output map (reference 1 of dicts)
CallerMessages == <<DictMessage("user", "hello")>>
CallerOutputs == [k \in {"earlier"} |-> "r0"]

\* what the caller invokes the agent with: a string, or a mapping that may
\* carry a human answer, or the caller's own message list and tool-output map
Inputs ==
    {StrInput("q"),
     DictInput([k \in {"input"} |-> "q"]),
     DictInput([k \in {"input", "human_input"} |-> IF k = "input" THEN "q" ELSE "yes"]),
     DictInput([k \in {"input", "messages", "tools_output"} |->
                    IF k = "input" THEN "q" ELSE 1])}

\* an initial State that is the caller's mapping alone, not laid over the
\* defaults
_prepare_initial_state_bare(input_data, ls, ds) ==
    LET user(x) == <<DictMessage("user", x)>>
    IN CASE input_data.kind = "str" ->
              [st |-> [k \in {"input", "messages"} |->
                          IF k = "input" THEN input_data.s ELSE Len(ls) + 1],
               lists |-> Append(ls, user(input_data.s)),
               dicts |-> ds]
         [] OTHER -> [st |-> input_data.d, lists |-> ls, dicts |-> ds]

\* LangGraphAgent._prepare_initial_state
_prepare_initial_state(input_data, ls, ds) ==
    LET def == _get_default_state(ls, ds)
        user(x) == <<DictMessage("user", x)>>
    IN CASE input_data.kind = "str" ->
              [st |-> Put(Put(def.st, "input", input_data.s), "messages", Len(def.lists) + 1),
               lists |-> Append(def.lists, user(input_data.s)),
               dicts |-> def.dicts]
         [] input_data.kind = "dict" ->
              LET st1 == DictUpdate(def.st, input_data.d)
              IN IF "input" \in DOMAIN input_data.d /\ "messages" \notin DOMAIN input_data.d
                 THEN [st |-> Put(st1, "messages", Len(def.lists) + 1),
                       lists |-> Append(def.lists, user(input_data.d["input"])),
                       dicts |-> def.dicts]
                 ELSE [st |-> st1, lists |-> def.lists, dicts |-> def.dicts]
         [] OTHER -> def

\* a result that reports the error but not the output
_process_result_without_output(result) ==
    LET keys == {"output", "messages", "metadata", "error"}
                \cup ({"tools_output", "intermediate_steps"} \cap DOMAIN result)
    IN [k \in keys |->
          CASE k \in {"messages", "metadata"} -> Get(result, k, 0)
            [] k = "output" -> NONE
            [] k = "error" -> Get(result, k, NONE)
            [] OTHER -> result[k]]

\* LangGraphAgent._process_result; reference 0 stands for the new empty list or
\* dict that result.get(key, []) makes when the key is missing
_process_result(result) ==
    LET keys == {"output", "messages", "metadata", "error"}
                \cup ({"tools_output", "intermediate_steps"} \cap DOMAIN result)
    IN [k \in keys |->
          CASE k \in {"messages", "metadata"} -> Get(result, k, 0)
            [] k \in {"output", "error"} -> Get(result, k, NONE)
            [] OTHER -> result[k]]

\* a loop that walks the nodes from the last one inserted to the first
NodeItems_reversed(g) == [i \in 1..Len(g.nodes) |-> g.nodes[Len(g.nodes) + 1 - i]]

\* the order MockLangGraphApp iterates self.nodes.items() in
NodeItems(g) == g.nodes

\* an except clause that starts the State over, keeping the error alone
mock_step_discards(c, func, ext) ==
    LET r == create_node(func, c, ext)
    IN [st |-> CASE r.ret.kind = "raise" -> [k \in {"error"} |-> r.ret.v]
                 [] r.ret.kind = "state" -> DictUpdate(r.st, r.st)
                 [] r.ret.kind = "dict" -> DictUpdate(r.st, r.ret.d)
                 [] OTHER -> Put(r.st, "output", r.ret.v),
        lists |-> r.lists,
        dicts |-> r.dicts,
        broke |-> r.ret.kind = "raise",
        ret |-> r.ret]

\* one iteration of the loop of MockLangGraphApp.invoke on current_state
mock_step(c, func, ext) ==
    LET r == create_node(func, c, ext)
    IN [st |-> CASE r.ret.kind = "raise" -> Put(r.st, "error", r.ret.v)
                 [] r.ret.kind = "state" -> DictUpdate(r.st, r.st)
                 [] r.ret.kind = "dict" -> DictUpdate(r.st, r.ret.d)
                 [] OTHER -> Put(r.st, "output", r.ret.v),
        lists |-> r.lists,
        dicts |-> r.dicts,
        broke |-> r.ret.kind = "raise",
        ret |-> r.ret]

\* a run: pc is where LangGraphAgent.invoke stands, st the engine's
\* current_state, idx the position of the loop over the nodes, broke whether
\* the loop was left by break, result what invoke returned.  The other fields
\* record the history of the run: trace the nodes called, in order; routes,
\* for each call, what the evaluator answered and what the unit returned when
\* the node is a conditional one; failed and exc the node whose call raised
\* and the message of its exception; thread_id and run_config what the caller
\* passed and what app.invoke was handed; events what a stream has yielded;
\* outs what the external collaborator of each call did; collector the
\* metrics collector of the builder the agent came from ("none", "noop" for a
\* NoOpMetricsCollector, "metrics" for a MetricsCollector) and metric_calls
\* the methods invoke has called on it
NoRoute == [result |-> NONE, next |-> NONE]

IdleRun ==
    [pc |-> "idle", input |-> NoInput, st |-> EmptyDict, idx |-> 1, broke |-> FALSE,
     result |-> EmptyDict,
     trace |-> <<>>, routes |-> <<>>, failed |-> NONE, exc |-> NONE,
     thread_id |-> NONE, run_config |-> EmptyDict, events |-> <<>>,
     outs |-> <<>>, collector |-> "none", metric_calls |-> <<>>]

\* the config argument of invoke: None, or runtime overrides
NoConfig == EmptyDict

RunConfigs ==
    {NoConfig, [k \in {"configurable"} |-> [x \in {"user"} |-> "u"]]}

ThreadIds == {"T1"}

\* LangGraphAgent._prepare_run_config
_prepare_run_config(config, thread_id) ==
    LET configurable == IF Truthy(thread_id) THEN [k \in {"thread_id"} |-> thread_id]
                        ELSE EmptyDict
        run_config == [k \in {"configurable"} |-> configurable]
    IN IF config # EmptyDict THEN DictUpdate(run_config, config) ELSE run_config

\* a collector whose calls leave a note in what invoke returns
Recorded_into_result(run, call) ==
    IF run.collector = "none" THEN run
    ELSE [run EXCEPT !.metric_calls = Append(@, call),
                     !.result = IF run.collector = "metrics"
                                THEN Put(@, "recorded", call) ELSE @]

\* if self.metrics_collector: self.metrics_collector.<call>(self.config.name);
\* the methods of both collectors touch counters only
Recorded(run, call) ==
    IF run.collector = "none" THEN run
    ELSE [run EXCEPT !.metric_calls = Append(@, call)]

\* LangGraphAgent.invoke(input_data, config, thread_id) up to the call of
\* app.invoke, and MockLangGraphApp.invoke(state, config) up to its loop:
\* current_state = dict(state); config is not read
InvokeOn(r, input_data, config, thread_id) ==
    /\ agent = "built"
    /\ runs[r].pc = "idle"
    /\ LET init == _prepare_initial_state(input_data, lists, dicts)
       IN /\ runs' = [runs EXCEPT ![r] = Recorded(
                        [@ EXCEPT !.pc = "running",
                                  !.input = input_data,
                                  !.st = init.st,
                                  !.thread_id = thread_id,
                                  !.run_config = _prepare_run_config(config, thread_id)],
                        "record_invocation")]
          /\ lists' = init.lists
          /\ dicts' = init.dicts
    /\ UNCHANGED <<cfg, agent, graph, sm, tp, memory, cv>>

\* invoke(input_data): config and thread_id keep their default, None
Invoke(r, input_data) == InvokeOn(r, input_data, NoConfig, NONE)

\* one iteration of the loop of MockLangGraphApp.invoke
Step(r) ==
    /\ runs[r].pc = "running"
    /\ ~ runs[r].broke
    /\ runs[r].idx <= Len(NodeItems(graph))
    /\ LET item == NodeItems(graph)[runs[r].idx]
       IN \E ext \in Outcomes(item.func) :
            LET out == mock_step([st |-> runs[r].st, lists |-> lists, dicts |-> dicts],
                                 item.func, ext)
            IN /\ runs' = [runs EXCEPT ![r] =
                              [@ EXCEPT !.st = out.st,
                                        !.idx = @ + 1,
                                        !.broke = out.broke,
                                        !.trace = Append(@, item.name),
                                        !.outs = Append(@, ext),
                                        !.routes = Append(@,
                                            IF item.func.type = "conditional"
                                            THEN [result |-> condition_func(ext),
                                                  next |-> out.ret.v]
                                            ELSE IF item.func.type = "edge_rule"
                                            THEN [result |-> ext.val, next |-> out.ret.v]
                                            ELSE NoRoute),
                                        !.failed = IF out.broke THEN item.name ELSE @,
                                        !.exc = IF out.broke THEN out.ret.v ELSE @]]
               /\ lists' = out.lists
               /\ dicts' = out.dicts
    /\ UNCHANGED <<cfg, agent, graph, sm, tp, memory, cv>>

\* MockLangGraphApp.invoke returns current_state; LangGraphAgent.invoke
\* processes it and returns the result
Return(r) ==
    /\ runs[r].pc = "running"
    /\ runs[r].broke \/ runs[r].idx > Len(NodeItems(graph))
    /\ runs' = [runs EXCEPT ![r] = Recorded(
                    [@ EXCEPT !.pc = "returned", !.result = _process_result(runs[r].st)],
                    "record_success")]
    /\ UNCHANGED <<cfg, agent, graph, lists, dicts, sm, tp, memory, cv>>

\* LangGraphAgent.astream up to the call of app.astream, and
\* MockLangGraphApp.astream up to its loop
Stream(r, input_data) ==
    /\ agent = "built"
    /\ runs[r].pc = "idle"
    /\ LET init == _prepare_initial_state(input_data, lists, dicts)
       IN /\ runs' = [runs EXCEPT ![r] =
                        [@ EXCEPT !.pc = "streaming",
                                  !.input = input_data,
                                  !.st = init.st,
                                  !.run_config = _prepare_run_config(NoConfig, NONE)]]
          /\ lists' = init.lists
          /\ dicts' = init.dicts
    /\ UNCHANGED <<cfg, agent, graph, sm, tp, memory, cv>>

\* one iteration of the loop of MockLangGraphApp.astream: the node is called
\* and {node_name: current_state} is yielded, also when the call raised.  The
\* event holds current_state itself, not a copy; the record kept here notes
\* the node and what that State showed when it was yielded
Yield(r) ==
    /\ runs[r].pc = "streaming"
    /\ ~ runs[r].broke
    /\ runs[r].idx <= Len(NodeItems(graph))
    /\ LET item == NodeItems(graph)[runs[r].idx]
       IN \E ext \in Outcomes(item.func) :
            LET out == mock_step([st |-> runs[r].st, lists |-> lists, dicts |-> dicts],
                                 item.func, ext)
            IN /\ runs' = [runs EXCEPT ![r] =
                              [@ EXCEPT !.st = out.st,
                                        !.idx = @ + 1,
                                        !.broke = out.broke,
                                        !.trace = Append(@, item.name),
                                        !.outs = Append(@, ext),
                                        !.routes = Append(@, NoRoute),
                                        !.failed = IF out.broke THEN item.name ELSE @,
                                        !.exc = IF out.broke THEN out.ret.v ELSE @,
                                        !.events = Append(@,
                                            [node |-> item.name,
                                             awaiting |-> Get(out.st, "needs_human_input", FALSE),
                                             failed |-> out.broke])]]
               /\ lists' = out.lists
               /\ dicts' = out.dicts
    /\ UNCHANGED <<cfg, agent, graph, sm, tp, memory, cv>>

\* the loop of MockLangGraphApp.astream is over: the stream is exhausted
StreamEnd(r) ==
    /\ runs[r].pc = "streaming"
    /\ runs[r].broke \/ runs[r].idx > Len(NodeItems(graph))
    /\ runs' = [runs EXCEPT ![r] = [@ EXCEPT !.pc = "exhausted"]]
    /\ UNCHANGED <<cfg, agent, graph, lists, dicts, sm, tp, memory, cv>>

-----------------------------------------------------------------------------
(* ToolNodeBuilder._prepare_tool_input on inputs of its own *)

\* the characters of the state keys a mapping may name
Chars(name) ==
    CASE name = "input" -> <<"i", "n", "p", "u", "t">>
      [] name = "output" -> <<"o", "u", "t", "p", "u", "t">>
      [] name = "" -> <<>>
      [] OTHER -> <<"a", "b", "s", "e", "n", "t">>

RefNames == {"input", "output", "absent", ""}

\* the string "$name"
Ref(name) == PyStr(<<"$">> \o Chars(name))

Literals ==
    {PyStr(<<"l", "i", "t">>), PyStr(Chars("input")), PyStr(<<"a", "$", "b">>),
     PyStr(<<>>), PyInt(5)}

TPStates == UNION {[ks -> {PyStr(<<"x">>), PyInt(7), PyNone}] : ks \in SUBSET {"input", "output"}}

TPConfigs ==
    UNION {[ks -> {Ref(n) : n \in RefNames} \cup Literals] : ks \in SUBSET {"a", "b"}}

TPMessages == {<<>>, <<DictMessage("user", "q")>>, <<AIMessage("m")>>}

NoOut == [raised |-> NONE, tool_input |-> EmptyDict]

NoTP == [state |-> EmptyDict, messages |-> <<>>, tool_config |-> EmptyDict,
         out |-> NoOut, done |-> FALSE]

PrepareToolInput ==
    /\ ~ tp.done
    /\ tp' = [tp EXCEPT !.out = _prepare_tool_input(tp.state, tp.messages, tp.tool_config),
                        !.done = TRUE]
    /\ UNCHANGED <<cfg, agent, graph, lists, dicts, runs, sm, memory, cv>>

-----------------------------------------------------------------------------
(* config/models.py: construction of a NodeConfig and of an AgentConfig.     *)
(* The caller gives a field's argument or omits it.  pydantic calls the      *)
(* @validator of a field on the value the caller gave, None included; a      *)
(* field the caller omitted takes its default and, its validator not being   *)
(* declared with always=True, is not validated.                              *)

Given(v) == [given |-> TRUE, v |-> v]
Omitted(default) == [given |-> FALSE, v |-> default]

\* the error a field contributes: that of its validator when the field is given
FieldError(arg, err) == IF arg.given THEN err ELSE NONE

\* NodeConfig.prompt_required_for_llm
prompt_required_for_llm(v, values) ==
    IF Get(values, "type", NONE) = "llm" /\ ~ Truthy(v)
    THEN "Prompt is required for LLM nodes" ELSE NONE

\* NodeConfig.tool_required_for_tool_node
tool_required_for_tool_node(v, values) ==
    IF Get(values, "type", NONE) = "tool" /\ ~ Truthy(v)
    THEN "Tool name is required for tool nodes" ELSE NONE

\* NodeConfig(name=..., type=..., prompt=..., tool=...)
construct_NodeConfig(args) ==
    LET values == [k \in {"name", "type"} |-> IF k = "name" THEN args.name ELSE args.type]
        errors == {FieldError(args.prompt, prompt_required_for_llm(args.prompt.v, values)),
                   FieldError(args.tool, tool_required_for_tool_node(args.tool.v, values))}
                  \ {NONE}
    IN [ok |-> errors = {}, errors |-> errors]

\* an Optional[List[...]] value: None, or a list
NoneList == [none |-> TRUE, items |-> <<>>]
List(items) == [none |-> FALSE, items |-> items]

EdgeConfig(source, target) == [source |-> source, target |-> target, condition |-> NONE]

WorkflowTypes == {"sequential", "parallel", "conditional", "cyclic", "custom"}

\* a validator that refuses edges whatever the workflow type
validate_edges_any_workflow(v, values) ==
    IF ~ v.none /\ v.items # <<>>
    THEN "Custom edges are not allowed for sequential workflows" ELSE NONE

\* AgentConfig.validate_edges
validate_edges(v, values) ==
    IF (~ v.none /\ v.items # <<>>) /\ Get(values, "workflow_type", NONE) = "sequential"
    THEN "Custom edges are not allowed for sequential workflows" ELSE NONE

\* a validator that lets every entry point through
validate_entry_point_unchecked(v, values) == NONE

\* AgentConfig.validate_entry_point
validate_entry_point(v, values) ==
    LET nodes == Get(values, "nodes", <<>>)
    IN IF Truthy(v) /\ ~ \E i \in 1..Len(nodes) : nodes[i].name = v
       THEN "Entry point not found in nodes" ELSE NONE

\* AgentConfig(workflow_type=..., nodes=..., edges=..., entry_point=...); values
\* holds the fields declared before the one validated, defaults included
construct_AgentConfig(args) ==
    LET values == [workflow_type |-> args.workflow_type.v, nodes |-> args.nodes]
        errors == {FieldError(args.edges, validate_edges(args.edges.v, values)),
                   FieldError(args.entry_point,
                              validate_entry_point(args.entry_point.v, values))}
                  \ {NONE}
    IN [ok |-> errors = {}, errors |-> errors]

\* the arguments NodeConfig is constructed with
StrArgs(x) == {Omitted(NONE), Given(NONE), Given(""), Given(x)}

NodeArgs ==
    [name : {"n1"}, type : NodeTypes, prompt : StrArgs("be brief"),
     tool : StrArgs("calculator")]

\* the arguments AgentConfig is constructed with: up to MaxNodes nodes, an
\* entry point that names one of them or none of them, edges between them
AgentArgs ==
    UNION {[workflow_type : {Omitted("sequential")} \cup {Given(w) : w \in WorkflowTypes},
            nodes : {[i \in 1..n |-> NodeConfig(i, "human_input", n)]},
            edges : {Omitted(NoneList), Given(NoneList), Given(List(<<>>)),
                     Given(List(<<EdgeConfig(NodeName(1), NodeName(n))>>))},
            entry_point : {Omitted(NONE), Given(NONE), Given("")}
                          \cup {Given(NodeName(i)) : i \in 1..(MaxNodes + 1)}] :
           n \in 1..MaxNodes}

\* the fields of the AgentConfig object constructed from args
ConfigOf(args) ==
    [workflow_type |-> args.workflow_type.v, nodes |-> args.nodes,
     edges |-> args.edges.v, entry_point |-> args.entry_point.v]

\* nothing constructed yet; config holds the fields of the object once it is
\* constructed
NoCV ==
    [kind |-> "none",
     node_args |-> [name |-> "", type |-> "custom", prompt |-> Omitted(NONE),
                    tool |-> Omitted(NONE)],
     agent_args |-> [workflow_type |-> Omitted("sequential"), nodes |-> <<>>,
                     edges |-> Omitted(NoneList), entry_point |-> Omitted(NONE)],
     out |-> [ok |-> FALSE, errors |-> {}], done |-> FALSE,
     config |-> [workflow_type |-> "sequential", nodes |-> <<>>,
                 edges |-> NoneList, entry_point |-> NONE]]

ConstructNodeConfig ==
    /\ cv.kind = "node" /\ ~ cv.done
    /\ cv' = [cv EXCEPT !.out = construct_NodeConfig(cv.node_args), !.done = TRUE]
    /\ UNCHANGED <<cfg, agent, graph, lists, dicts, runs, sm, tp, memory>>

ConstructAgentConfig ==
    /\ cv.kind = "agent" /\ ~ cv.done
    /\ cv' = [cv EXCEPT !.out = construct_AgentConfig(cv.agent_args), !.done = TRUE,
                        !.config = IF construct_AgentConfig(cv.agent_args).ok
                                   THEN ConfigOf(cv.agent_args) ELSE @]
    /\ UNCHANGED <<cfg, agent, graph, lists, dicts, runs, sm, tp, memory>>

\* config.<field> = v on a constructed AgentConfig: the model class declares
\* neither frozen nor validate_assignment, so the attribute is set and no
\* validator runs
SetAttr(field, v) ==
    /\ cv.kind = "agent" /\ cv.done /\ cv.out.ok
    /\ cv.config = ConfigOf(cv.agent_args)
    /\ cv' = [cv EXCEPT !.config[field] = v]
    /\ UNCHANGED <<cfg, agent, graph, lists, dicts, runs, sm, tp, memory>>

-----------------------------------------------------------------------------
(* Specifications *)

\* one invocation of an agent built from any configuration of Configs
Init ==
    /\ cfg \in Configs
    /\ agent = "unbuilt"
    /\ graph = NoGraph
    /\ lists = <<CallerMessages>>
    /\ dicts = <<CallerOutputs>>
    /\ runs = [r \in RunIds |-> IdleRun]
    /\ sm = NoSM
    /\ tp = NoTP
    /\ memory = EmptyDict
    /\ cv = NoCV

Next ==
    \/ Build
    \/ \E input_data \in Inputs : Invoke(1, input_data)
    \/ Step(1)
    \/ Return(1)

Spec == Init /\ [][Next]_vars

\* several invocations of one agent, interleaved at node executions
ConcConfigs ==
    {AgentConfig("sequential", ts, NONE, DefaultMaxIterations) :
        ts \in [1..2 -> {"llm", "tool", "human_input"}]}

InitConc ==
    /\ cfg \in ConcConfigs
    /\ agent = "unbuilt"
    /\ graph = NoGraph
    /\ lists = <<CallerMessages>>
    /\ dicts = <<CallerOutputs>>
    /\ runs = [r \in RunIds |-> IdleRun]
    /\ sm = NoSM
    /\ tp = NoTP
    /\ memory = EmptyDict
    /\ cv = NoCV

InvokeAny == \E r \in RunIds, input_data \in Inputs : Invoke(r, input_data)
StepAny == \E r \in RunIds : Step(r)
ReturnAny == \E r \in RunIds : Return(r)

NextConc == Build \/ InvokeAny \/ StepAny \/ ReturnAny

SpecConc == InitConc /\ [][NextConc]_vars

\* invocations of one agent made one after the other, each with a thread id
\* or none, and with or without a human answer
ThreadConfigs ==
    {AgentConfig("sequential", ts, NONE, DefaultMaxIterations) :
        ts \in [1..2 -> {"llm", "human_input"}]}

InitThread ==
    /\ cfg \in ThreadConfigs
    /\ agent = "unbuilt"
    /\ graph = NoGraph
    /\ lists = <<CallerMessages>>
    /\ dicts = <<CallerOutputs>>
    /\ runs = [r \in RunIds |-> IdleRun]
    /\ sm = NoSM
    /\ tp = NoTP
    /\ memory = EmptyDict
    /\ cv = NoCV

InvokeThread ==
    \E r \in RunIds, config \in RunConfigs, thread_id \in ThreadIds \cup {NONE},
       input_data \in {i \in Inputs : i.kind = "str" \/ "human_input" \in DOMAIN i.d} :
        /\ \A q \in RunIds : q < r => runs[q].pc = "returned"
        /\ InvokeOn(r, input_data, config, thread_id)

NextThread == Build \/ InvokeThread \/ StepAny \/ ReturnAny

SpecThread == InitThread /\ [][NextThread]_vars

\* one invocation of an agent whose configuration carries explicit edges,
\* between declared nodes, to the END sentinel, or naming a node that is not
\* declared ("ghost"), some of them under a condition; every topology that
\* AgentConfig accepts edges for
EdgeLists ==
    {<<>>, <<EdgeConfig("n1", "n2")>>, <<EdgeConfig("n1", END)>>,
     <<EdgeConfig("n1", "n2"), EdgeConfig("n2", "ghost")>>,
     <<EdgeConfig("ghost", "n1")>>,
     <<[EdgeConfig("n1", "n2") EXCEPT !.condition = "c1"],
       [EdgeConfig("n2", "n1") EXCEPT !.condition = "c2"]>>,
     <<[EdgeConfig("n1", "n2") EXCEPT !.condition = "c1"], EdgeConfig("n2", END)>>}

EdgeConfigs ==
    {[AgentConfig(wf, ts, NONE, DefaultMaxIterations) EXCEPT !.edges = es] :
        wf \in WorkflowTypes \ {"sequential"},
        ts \in [1..2 -> {"llm", "human_input"}],
        es \in EdgeLists}

InitEdges ==
    /\ cfg \in EdgeConfigs
    /\ agent = "unbuilt"
    /\ graph = NoGraph
    /\ lists = <<CallerMessages>>
    /\ dicts = <<CallerOutputs>>
    /\ runs = [r \in RunIds |-> IdleRun]
    /\ sm = NoSM
    /\ tp = NoTP
    /\ memory = EmptyDict
    /\ cv = NoCV

SpecEdges == InitEdges /\ [][Next]_vars

\* one stream of an agent
InitStream ==
    /\ cfg \in ConcConfigs
    /\ agent = "unbuilt"
    /\ graph = NoGraph
    /\ lists = <<CallerMessages>>
    /\ dicts = <<CallerOutputs>>
    /\ runs = [r \in RunIds |-> IdleRun]
    /\ sm = NoSM
    /\ tp = NoTP
    /\ memory = EmptyDict
    /\ cv = NoCV

NextStream ==
    \/ Build
    \/ \E input_data \in Inputs : Stream(1, input_data)
    \/ Yield(1)
    \/ StreamEnd(1)

SpecStream == InitStream /\ [][NextStream]_vars

\* one invocation of an agent whose LLM and tool nodes carry a retry policy
RetryConfigs ==
    {WithRetry(AgentConfig("sequential", ts, NONE, DefaultMaxIterations), m) :
        ts \in UNION {[1..n -> {"llm", "tool"}] : n \in 1..2}, m \in 1..MaxAttempts}

InitRetry ==
    /\ cfg \in RetryConfigs
    /\ agent = "unbuilt"
    /\ graph = NoGraph
    /\ lists = <<CallerMessages>>
    /\ dicts = <<CallerOutputs>>
    /\ runs = [r \in RunIds |-> IdleRun]
    /\ sm = NoSM
    /\ tp = NoTP
    /\ memory = EmptyDict
    /\ cv = NoCV

SpecRetry == InitRetry /\ [][Next]_vars

\* sequential configurations of one or two nodes in which a tool node may
\* name a tool the registry does not hold and a custom node may bear a name
\* no handler is bound under
UnresolvedConfigs ==
    LET unresolved(nc) ==
            CASE nc.type = "tool" -> [nc EXCEPT !.tool = "missing_tool"]
              [] nc.type = "custom" -> [nc EXCEPT !.name = "unbound"]
              [] OTHER -> nc
        base == {AgentConfig("sequential", ts, NONE, DefaultMaxIterations) :
                    ts \in UNION {[1..n -> {"llm", "tool", "custom"}] : n \in 1..2}}
    IN {[c EXCEPT !.nodes = [i \in 1..Len(c.nodes) |->
                    IF i \in S THEN unresolved(c.nodes[i]) ELSE c.nodes[i]]] :
            c \in base, S \in SUBSET (1..2)}

\* a conditional node followed by an LLM node, under every branch mapping
\* over the keys "a", "False" and "default"
BranchConfigs ==
    {[AgentConfig("sequential", <<"conditional", "llm">>, NONE, DefaultMaxIterations)
        EXCEPT !.nodes[1].branches = [k \in ks |-> IF k = "default" THEN "n1" ELSE "n2"]] :
        ks \in SUBSET {"a", "False", "default"}}

\* an agent not yet built from one of the configurations cs, by a builder
\* whose metrics collector is one of collectors
InitOn(cs, collectors) ==
    /\ cfg \in cs
    /\ agent = "unbuilt"
    /\ graph = NoGraph
    /\ lists = <<CallerMessages>>
    /\ dicts = <<CallerOutputs>>
    /\ runs \in [RunIds -> {[IdleRun EXCEPT !.collector = k] : k \in collectors}]
    /\ sm = NoSM
    /\ tp = NoTP
    /\ memory = EmptyDict
    /\ cv = NoCV

\* with them, every sequence of node types as a parallel workflow
SpecVariants ==
    /\ InitOn(UnresolvedConfigs \cup BranchConfigs
               \cup {AgentConfig("parallel", ts, NONE, DefaultMaxIterations) : ts \in TypeSeqs},
              {"none"})
    /\ [][Next]_vars

\* invocations made one after the other, each on an agent built from the same
\* configuration by a builder with no collector, a NoOpMetricsCollector or a
\* MetricsCollector, and each from an input that holds no object of the caller
InvokeSeq ==
    \E r \in RunIds,
       input_data \in {i \in Inputs : i.kind = "str" \/ "messages" \notin DOMAIN i.d} :
        /\ \A q \in RunIds : q < r => runs[q].pc = "returned"
        /\ Invoke(r, input_data)

NextMetrics == Build \/ InvokeSeq \/ StepAny \/ ReturnAny

SpecMetrics == InitOn(ConcConfigs, {"none", "noop", "metrics"}) /\ [][NextMetrics]_vars

\* a StateManager of its own, as AgentBuilder.build constructs it
InitSM ==
    /\ cfg = AgentConfig("sequential", <<"llm">>, NONE, DefaultMaxIterations)
    /\ agent = "unbuilt"
    /\ graph = NoGraph
    /\ lists = _get_default_state(<<>>, <<>>).lists
    /\ dicts = _get_default_state(<<>>, <<>>).dicts
    /\ runs = [r \in RunIds |-> IdleRun]
    /\ sm = [state |-> _get_default_state(<<>>, <<>>).st, snaps |-> <<>>, ops |-> 0]
    /\ tp = NoTP
    /\ memory = EmptyDict
    /\ cv = NoCV

NextSM ==
    \/ \E u \in SMUpdates : SMUpdate(u)
    \/ SMIncrementIterations
    \/ \E m \in SMMessages : SMAddMessage(m)
    \/ \E e \in {"boom", NONE} : SMSetError(e)
    \/ SMSnapshot

SpecSM == InitSM /\ [][NextSM]_vars

\* _prepare_tool_input applied to every state and mapping of the bounded sets
InitTP ==
    /\ cfg = AgentConfig("sequential", <<"tool">>, NONE, DefaultMaxIterations)
    /\ agent = "unbuilt"
    /\ graph = NoGraph
    /\ lists = <<>>
    /\ dicts = <<>>
    /\ runs = [r \in RunIds |-> IdleRun]
    /\ sm = NoSM
    /\ tp \in {[state |-> s, messages |-> m, tool_config |-> t, out |-> NoOut, done |-> FALSE] :
                 s \in TPStates, m \in TPMessages, t \in TPConfigs}
    /\ memory = EmptyDict
    /\ cv = NoCV

NextTP == PrepareToolInput

SpecTP == InitTP /\ [][NextTP]_vars

\* one construction of a NodeConfig or of an AgentConfig from every argument
\* list of the bounded sets
InitCV ==
    /\ cfg = AgentConfig("sequential", <<"llm">>, NONE, DefaultMaxIterations)
    /\ agent = "unbuilt"
    /\ graph = NoGraph
    /\ lists = <<>>
    /\ dicts = <<>>
    /\ runs = [r \in RunIds |-> IdleRun]
    /\ sm = NoSM
    /\ tp = NoTP
    /\ memory = EmptyDict
    /\ cv \in {[NoCV EXCEPT !.kind = "node", !.node_args = a] : a \in NodeArgs}
             \cup {[NoCV EXCEPT !.kind = "agent", !.agent_args = a] : a \in AgentArgs}

NextCV ==
    \/ ConstructNodeConfig
    \/ ConstructAgentConfig
    \/ \E v \in {NONE} \cup {NodeName(i) : i \in 1..(MaxNodes + 1)} : SetAttr("entry_point", v)
    \/ \E v \in WorkflowTypes : SetAttr("workflow_type", v)
    \/ \E v \in {NoneList, List(<<EdgeConfig(NodeName(1), NodeName(1))>>)} : SetAttr("edges", v)

SpecCV == InitCV /\ [][NextCV]_vars

-----------------------------------------------------------------------------
(* Properties *)

DeclaredNames == [i \in 1..Len(cfg.nodes) |-> cfg.nodes[i].name]

NoConditionalNode == \A i \in 1..Len(cfg.nodes) : cfg.nodes[i].type # "conditional"

NodeConfigOf(name) == CHOOSE n \in {cfg.nodes[i] : i \in 1..Len(cfg.nodes)} : n.name = name

NodeType(name) == NodeConfigOf(name).type

\* C1: with sequential topology and N declared nodes, none of them
\* conditional, an invocation calls the nodes in declared order, each at most
\* once (the nodes called so far are always a prefix of the declared list);
\* once the Nth node has been called no further node can be called and the
\* run can only complete; a run that ends with no node having failed has
\* called exactly the N declared nodes.
C1_SequentialOrder ==
    (agent = "built" /\ cfg.workflow_type = "sequential" /\ NoConditionalNode) =>
        \A r \in RunIds :
            /\ IsPrefix(runs[r].trace, DeclaredNames)
            /\ (runs[r].pc = "running" /\ runs[r].trace = DeclaredNames) =>
                    (~ ENABLED Step(r)) /\ ENABLED Return(r)
            /\ (runs[r].pc = "returned" /\ runs[r].failed = NONE) =>
                    runs[r].trace = DeclaredNames

\* a sequential run of three non-conditional nodes has completed without failure
C1_Witness ==
    /\ cfg.workflow_type = "sequential" /\ NoConditionalNode /\ Len(cfg.nodes) = 3
    /\ runs[1].pc = "returned" /\ runs[1].failed = NONE
    /\ runs[1].trace = <<"n1", "n2", "n3">>

\* the message history StateManager's State holds
SMHistory == IF "messages" \in DOMAIN sm.state THEN lists[sm.state["messages"]] ELSE <<>>

\* C2: merging an update into a State never removes or replaces an entry of
\* the message history: the history before the merge is a prefix of the
\* history after it (so its length never decreases), also when the update
\* carries a 'messages' key of its own.
C2_MergeKeepsHistory == [][IsPrefix(SMHistory, SMHistory')]_vars

\* C3: a cyclic workflow with iteration limit K and no conditional node (no
\* exit condition can ever be satisfied) never ends as Completed: its run
\* ends Failed with IterationLimitExceeded after exactly K + 1 node executions.
C3_CyclicHitsIterationLimit ==
    \A r \in RunIds :
        (cfg.workflow_type = "cyclic" /\ NoConditionalNode
         /\ runs[r].pc = "returned" /\ runs[r].failed = NONE) =>
            /\ runs[r].result["error"] = "IterationLimitExceeded"
            /\ Len(runs[r].trace) = cfg.max_iterations + 1

\* C4: when the evaluator of a conditional node answers a string r that is a
\* key of the node's branch mapping, the node called next is branches[r], and
\* no node that is the target of another branch only is called in that run.
C4_ConditionalRouting ==
    \A r \in RunIds : \A i \in 1..Len(runs[r].trace) :
        LET branches == NodeConfigOf(runs[r].trace[i]).branches
            result == runs[r].routes[i].result
        IN (result # NONE /\ result \in DOMAIN branches) =>
              /\ i < Len(runs[r].trace) => runs[r].trace[i + 1] = branches[result]
              /\ \A k \in DOMAIN branches :
                    branches[k] # branches[result] =>
                        \A j \in 1..Len(runs[r].trace) : runs[r].trace[j] # branches[k]

LastCalled(r) == runs[r].trace[Len(runs[r].trace)]

\* C5: once a HumanInput node has run with no human answer in State (State
\* is marked as awaiting input), the run stops there: the node called last is
\* that HumanInput node, no node after it is called.
C5_HumanInputPauses ==
    \A r \in RunIds :
        (runs[r].pc # "idle" /\ Get(runs[r].st, "needs_human_input", FALSE)) =>
            NodeType(LastCalled(r)) = "human_input"

\* C6: the result invoke returns carries the awaiting flag of the final State:
\* needs_human_input is true in the result of a run that reached a HumanInput
\* node with no answer, and false in the result of a run that was given one.
C6_ResultCarriesFlag ==
    \A r \in RunIds :
        (runs[r].pc = "returned" /\ "needs_human_input" \in DOMAIN runs[r].st) =>
            /\ "needs_human_input" \in DOMAIN runs[r].result
            /\ runs[r].result["needs_human_input"] = runs[r].st["needs_human_input"]

\* C7: when a node's execution fails, no node after the failing one is
\* called and invoke does not return a normal result to its caller (the
\* error is re-raised).
C7_FailureReRaised ==
    \A r \in RunIds :
        runs[r].failed # NONE =>
            /\ LastCalled(r) = runs[r].failed
            /\ runs[r].pc # "returned"

RunHistory(r) == MessagesOf(runs[r].st, lists)

RunToolOutputs(r) ==
    IF "tools_output" \in DOMAIN runs[r].st THEN dicts[runs[r].st["tools_output"]]
    ELSE EmptyDict

\* the error is in State and in the result, and the result hands the caller
\* the history, the last output and the tool-output map of the State
C8_Recorded ==
    \A r \in RunIds :
        runs[r].failed # NONE =>
            /\ "error" \in DOMAIN runs[r].st /\ runs[r].st["error"] = runs[r].exc
            /\ runs[r].pc = "returned" =>
                /\ runs[r].result["error"] = runs[r].exc
                /\ "messages" \in DOMAIN runs[r].st
                /\ runs[r].result["messages"] = runs[r].st["messages"]
                /\ "output" \in DOMAIN runs[r].st
                /\ runs[r].result["output"] = runs[r].st["output"]
                /\ "tools_output" \in DOMAIN runs[r].st =>
                    /\ "tools_output" \in DOMAIN runs[r].result
                    /\ runs[r].result["tools_output"] = runs[r].st["tools_output"]

\* the step in which a node fails drops no key of State and leaves the
\* history, the last output and the tool-output map as the earlier nodes left them
C8_FailingStepKeeps ==
    \A r \in RunIds :
        (runs[r].failed = NONE /\ runs'[r].failed # NONE) =>
            /\ DOMAIN runs[r].st \subseteq DOMAIN runs'[r].st
            /\ RunHistory(r)' = RunHistory(r)
            /\ RunToolOutputs(r)' = RunToolOutputs(r)
            /\ Get(runs'[r].st, "output", NONE) = Get(runs[r].st, "output", NONE)

\* C8: when a node's execution fails, the error's message is recorded in
\* State's error field, and the State accumulated up to the failure (message
\* history, last output, tool outputs of earlier nodes) is kept as it was and
\* handed to the caller in the result, not discarded or reset.
C8_FailureKeepsState == [](C8_Recorded) /\ [][C8_FailingStepKeeps]_vars

\* a run whose second node failed has returned: the result carries the error
\* and the history the first node left
C8_Witness ==
    /\ runs[1].pc = "returned" /\ runs[1].failed = "n2"
    /\ runs[1].result["error"] = "ProviderError"
    /\ runs[1].result["output"] = "resp_n1"
    /\ Len(lists[runs[1].result["messages"]]) >= 2

\* C9: resolving a tool input mapping never raises; every value "$name" is
\* replaced by the value State holds under name, or by None when State has no
\* such key; every other value is passed through unchanged under its key.
C9_ToolInputResolved ==
    (tp.done /\ DOMAIN tp.tool_config # {}) =>
        /\ tp.out.raised = NONE
        /\ \A key \in DOMAIN tp.tool_config :
            /\ key \in DOMAIN tp.out.tool_input
            /\ \A n \in RefNames :
                tp.tool_config[key] = Ref(n) =>
                    tp.out.tool_input[key] =
                        (IF n \in DOMAIN tp.state THEN tp.state[n] ELSE PyNone)
            /\ tp.tool_config[key] \in Literals =>
                    tp.out.tool_input[key] = tp.tool_config[key]

\* a mapping with a reference to a present key, and one with a reference to
\* a missing key next to a literal, have been resolved
C9_Witness ==
    /\ tp.done
    /\ DOMAIN tp.tool_config = {"a", "b"}
    /\ tp.tool_config["a"] = Ref("output") /\ tp.tool_config["b"] = PyInt(5)
    /\ "output" \notin DOMAIN tp.state
    /\ tp.out.tool_input["a"] = PyNone

\* what a run's State shows of the objects it refers to
RunView(r) == [messages |-> RunHistory(r), tools_output |-> RunToolOutputs(r)]

\* C10: each run owns its State: a step that is not a step of run b (b's
\* record is unchanged) changes nothing that b's State shows, neither its
\* message history nor its tool-output map, also when the runs were started
\* from the same input mapping.
C10_RunsIsolated ==
    [][\A b \in RunIds :
          (runs[b].pc # "idle" /\ runs'[b] = runs[b]) => RunView(b)' = RunView(b)]_vars

\* a run that has returned with State awaiting a human answer
Paused(r) == runs[r].pc = "returned" /\ Get(runs[r].st, "needs_human_input", FALSE)

\* C11: a run on thread T that ends awaiting a human answer has saved its
\* State under T in the checkpoint store by the time it returns; a later
\* invocation on the same thread that brings the answer continues from the
\* saved State: its message history extends the history of the paused run.
C11_ThreadResumes ==
    \A a \in RunIds :
        (Paused(a) /\ Truthy(runs[a].thread_id)) =>
            /\ runs[a].thread_id \in DOMAIN memory
            /\ \A b \in RunIds :
                  (b > a /\ runs[b].pc # "idle" /\ runs[b].thread_id = runs[a].thread_id
                   /\ "human_input" \in DOMAIN runs[b].input.d) =>
                        IsPrefix(RunHistory(a), RunHistory(b))

\* how many times the unit of a node was executed in a run
Attempts(r, name) == Cardinality({i \in 1..Len(runs[r].trace) : runs[r].trace[i] = name})

\* C12: a node with a retry policy of max_attempts = M whose execution fails
\* on every attempt has been attempted exactly M times when its error
\* surfaces, and the error is the collaborator's own; a node whose attempt
\* succeeded is not attempted again (at most M attempts in all).
C12_RetryExhausted ==
    \A r \in RunIds : \A i \in 1..Len(runs[r].trace) :
        LET name == runs[r].trace[i]
            policy == NodeConfigOf(name).retry_config
        IN "max_attempts" \in DOMAIN policy =>
              IF runs[r].failed = name
              THEN /\ Attempts(r, name) = policy["max_attempts"]
                   /\ runs[r].exc \in {"ProviderError", "tool failed", AttributeError}
              ELSE Attempts(r, name) <= policy["max_attempts"]

\* C13: the first node an invocation executes is the configured entry point
\* when the configuration sets one, and the first declared node otherwise.
C13_EntryPointFirst ==
    \A r \in RunIds :
        runs[r].trace # <<>> =>
            runs[r].trace[1] = (IF Truthy(cfg.entry_point) THEN cfg.entry_point
                                ELSE cfg.nodes[1].name)

\* C14: a stream yields exactly one intermediate State per node execution,
\* in the order the nodes execute, and is finite (no more events than the
\* nodes the engine walks); once an event shows a State awaiting a human
\* answer (a pause) or a failed node, no event follows it, and an exhausted
\* stream can yield nothing more.
C14_StreamPerNode ==
    \A r \in RunIds :
        LET events == runs[r].events
        IN runs[r].pc \in {"streaming", "exhausted"} =>
            /\ Len(events) = Len(runs[r].trace)
            /\ \A i \in 1..Len(events) : events[i].node = runs[r].trace[i]
            /\ Len(events) <= Len(cfg.nodes)
            /\ \A i \in 1..Len(events) :
                    (events[i].awaiting \/ events[i].failed) => i = Len(events)
            /\ runs[r].pc = "exhausted" => ~ ENABLED Yield(r)

\* what the holder of the i-th snapshot reads in it: its keys and scalar
\* values, and behind its references the message history and the nested maps
SnapView(i) ==
    LET snap == sm.snaps[i]
    IN [top |-> snap,
        messages |-> IF "messages" \in DOMAIN snap THEN lists[snap["messages"]] ELSE <<>>,
        metadata |-> IF "metadata" \in DOMAIN snap THEN dicts[snap["metadata"]] ELSE EmptyDict,
        context |-> IF "context" \in DOMAIN snap THEN dicts[snap["context"]] ELSE EmptyDict]

\* C15: a snapshot is an independent copy: no later operation on the
\* originating State (an append to the message history, an update of a nested
\* map, a merge) changes what a snapshot taken earlier shows.
C15_SnapshotIndependent ==
    [][\A i \in 1..Len(sm.snaps) : SnapView(i)' = SnapView(i)]_vars

\* C17: constructing a NodeConfig fails when the field its type requires is
\* absent: an LLM node whose prompt is omitted, None or empty, and a tool node
\* whose tool name is omitted, None or empty, are rejected.
C17_RequiredFieldRejected ==
    (cv.kind = "node" /\ cv.done) =>
        LET a == cv.node_args
        IN ((a.type = "llm" /\ ~ Truthy(a.prompt.v))
            \/ (a.type = "tool" /\ ~ Truthy(a.tool.v))) => ~ cv.out.ok

\* C18: every edge of a configuration that was built into an agent has a
\* declared node as its source and a declared node (or the END sentinel) as
\* its target: a build of a configuration with an edge naming an undeclared
\* node fails and produces no agent.
C18_UndeclaredEdgeRejected ==
    agent = "built" =>
        \A j \in 1..Len(cfg.edges) :
            /\ cfg.edges[j].source \in NodeNames(cfg)
            /\ cfg.edges[j].target \in NodeNames(cfg) \cup {END}

\* C19: constructing an AgentConfig whose entry point is given (a non-empty
\* name) but is not the name of a declared node fails with the entry-point
\* validation error; with no entry point (omitted, None or empty) or with the
\* name of a declared node the entry point raises no error, and the
\* construction succeeds unless another field is refused.
C19_EntryPointValidated ==
    (cv.kind = "agent" /\ cv.done) =>
        LET a == cv.agent_args
            names == {a.nodes[i].name : i \in 1..Len(a.nodes)}
            named == a.entry_point.given /\ Truthy(a.entry_point.v)
            refused == "Entry point not found in nodes" \in cv.out.errors
        IN /\ (named /\ a.entry_point.v \notin names) => (refused /\ ~ cv.out.ok)
           /\ (~ named \/ a.entry_point.v \in names) =>
                /\ ~ refused
                /\ cv.out.errors \subseteq {"Custom edges are not allowed for sequential workflows"}
                /\ cv.out.ok <=> cv.out.errors = {}

\* a config of one node with entry point "n2" was refused, for that reason alone
C19_Witness ==
    /\ cv.kind = "agent" /\ cv.done
    /\ Len(cv.agent_args.nodes) = 1 /\ cv.agent_args.entry_point = Given("n2")
    /\ ~ cv.out.ok /\ cv.out.errors = {"Entry point not found in nodes"}

\* C20: constructing an AgentConfig whose topology is sequential, given or by
\* default, with a non-empty list of edges fails with the edges validation
\* error; the same edges raise no error under every other topology.
C20_SequentialForbidsEdges ==
    (cv.kind = "agent" /\ cv.done) =>
        LET a == cv.agent_args
            some_edges == a.edges.given /\ ~ a.edges.v.none /\ a.edges.v.items # <<>>
            refused == "Custom edges are not allowed for sequential workflows" \in cv.out.errors
        IN /\ (some_edges /\ a.workflow_type.v = "sequential") => (refused /\ ~ cv.out.ok)
           /\ (some_edges /\ a.workflow_type.v # "sequential") =>
                /\ ~ refused
                /\ cv.out.ok <=> cv.out.errors = {}
           /\ ~ some_edges => ~ refused

\* one edge given with the workflow type left to its default was refused,
\* for that reason alone
C20_Witness ==
    /\ cv.kind = "agent" /\ cv.done
    /\ cv.agent_args.edges.given /\ Len(cv.agent_args.edges.v.items) = 1
    /\ ~ cv.agent_args.workflow_type.given
    /\ ~ cv.out.ok
    /\ cv.out.errors = {"Custom edges are not allowed for sequential workflows"}

\* C21: a configuration with custom topology and no edges (None or an empty
\* list) is never built into an agent: its build fails, and no run is ever
\* started on it, so the violation cannot surface at run time.
C21_CustomNeedsEdges ==
    (cfg.workflow_type = "custom" /\ cfg.edges = <<>>) =>
        /\ agent # "built"
        /\ \A r \in RunIds : runs[r].pc = "idle"
        /\ ~ ENABLED (\E input_data \in Inputs : Invoke(1, input_data))

\* the build of a custom configuration without edges has failed
C21_Witness ==
    /\ cfg.workflow_type = "custom" /\ cfg.edges = <<>>
    /\ agent = "build_failed" /\ graph = NoGraph

\* C22: a configuration with a tool node whose tool is not in the registry,
\* or a custom node under whose name no handler is bound, is never built
\* into an agent: the build raises, and no run is ever started on it.
C22_UnresolvedFailsBuild ==
    (\E i \in 1..Len(cfg.nodes) :
        \/ cfg.nodes[i].type = "tool" /\ cfg.nodes[i].tool \notin ToolRegistry
        \/ cfg.nodes[i].type = "custom" /\ cfg.nodes[i].name \notin CustomHandlers) =>
        /\ agent # "built"
        /\ graph = NoGraph
        /\ \A r \in RunIds : runs[r].pc = "idle" /\ runs[r].trace = <<>>

\* the build of a configuration whose second node is an unbound custom node,
\* after a node that resolves, has failed
C22_Witness ==
    /\ Len(cfg.nodes) = 2
    /\ cfg.nodes[1].type = "llm"
    /\ cfg.nodes[2].type = "custom" /\ cfg.nodes[2].name \notin CustomHandlers
    /\ agent = "build_failed"

\* C23: a constructed AgentConfig keeps the fields it was constructed with
\* (topology, nodes, edges, entry point), and so satisfies the constraints its
\* validators enforce: the entry point is unset or names a declared node, and
\* there are no edges under the sequential topology.
C23_ConfigImmutable ==
    (cv.kind = "agent" /\ cv.done /\ cv.out.ok) =>
        LET values == [workflow_type |-> cv.config.workflow_type, nodes |-> cv.config.nodes]
        IN /\ cv.config = ConfigOf(cv.agent_args)
           /\ validate_entry_point(cv.config.entry_point, values) = NONE
           /\ validate_edges(cv.config.edges, values) = NONE

\* C24: the State a run starts from is the default State with the caller's
\* input laid over it.  For a string x, input is x and the message history is
\* the one user message x.  For a mapping m, every key of m has m's value.  In
\* both cases each of output, error, current_node, iterations, metadata and
\* context that the input does not supply has its default: null, null, null,
\* 0, and a new empty mapping each.
C24_InitialState ==
    \A r \in RunIds :
        (runs[r].pc = "running" /\ runs[r].trace = <<>>) =>
            LET st == runs[r].st
                input_data == runs[r].input
                supplied == IF input_data.kind = "dict" THEN DOMAIN input_data.d ELSE {}
                has(k, v) == k \in DOMAIN st /\ st[k] = v
                empty(k) == /\ k \in DOMAIN st
                            /\ st[k] \in 1..Len(dicts)
                            /\ dicts[st[k]] = EmptyDict
            IN /\ input_data.kind = "str" =>
                    /\ has("input", input_data.s)
                    /\ "messages" \in DOMAIN st
                    /\ MessagesOf(st, lists) = <<DictMessage("user", input_data.s)>>
               /\ \A k \in supplied : has(k, input_data.d[k])
               /\ \A k \in {"output", "error", "current_node"} \ supplied : has(k, NONE)
               /\ "iterations" \notin supplied => has("iterations", 0)
               /\ \A k \in {"metadata", "context"} \ supplied : empty(k)

\* a run has started from a mapping that supplies the caller's message list
\* and tool outputs; the keys it leaves out have their defaults
C24_Witness ==
    /\ runs[1].pc = "running" /\ runs[1].trace = <<>>
    /\ runs[1].input.kind = "dict"
    /\ "tools_output" \in DOMAIN runs[1].input.d
    /\ runs[1].st["messages"] = 1 /\ runs[1].st["tools_output"] = 1
    /\ runs[1].st["output"] = NONE /\ runs[1].st["iterations"] = 0

\* C25: on an agent built from a sequential configuration of LLM nodes only,
\* invoke({'input': x}) never stops short of returning, and when every LLM
\* call was answered the result it returns has a non-null output, the
\* response of the last LLM node, and a null error.
C25_LLMPipelineOutput ==
    \A r \in RunIds :
        (/\ cfg.workflow_type = "sequential"
         /\ \A i \in 1..Len(cfg.nodes) : cfg.nodes[i].type = "llm"
         /\ runs[r].input = DictInput([k \in {"input"} |-> "q"])) =>
            /\ runs[r].pc = "running" => ENABLED (Step(r) \/ Return(r))
            /\ (/\ runs[r].pc = "returned"
                /\ \A i \in 1..Len(runs[r].outs) : runs[r].outs[i].exc = NONE) =>
                    /\ runs[r].result["output"] # NONE
                    /\ runs[r].result["output"] = "resp_" \o cfg.nodes[Len(cfg.nodes)].name
                    /\ runs[r].result["error"] = NONE

\* three LLM nodes have answered in turn and invoke has returned
C25_Witness ==
    /\ cfg.workflow_type = "sequential"
    /\ Len(cfg.nodes) = MaxNodes
    /\ \A i \in 1..Len(cfg.nodes) : cfg.nodes[i].type = "llm"
    /\ runs[1].input = DictInput([k \in {"input"} |-> "q"])
    /\ runs[1].pc = "returned"
    /\ Len(runs[1].trace) = MaxNodes
    /\ \A i \in 1..Len(runs[1].outs) : runs[1].outs[i].exc = NONE
    /\ runs[1].result["output"] = "resp_" \o NodeName(MaxNodes)

\* C26: two invocations from the same input whose units met the same
\* outcomes of their collaborators show the same node sequence, the same
\* final State and result and the same failure, whichever collector (a
\* MetricsCollector, a NoOpMetricsCollector or none) each agent carries.
\* State and result are compared with their lists and mappings read through.
C26_CollectorSubstitutable ==
    LET read(d) ==
            [k \in DOMAIN d |->
                CASE k = "messages" -> [kind |-> "list", v |-> IF d[k] = 0 THEN <<>> ELSE lists[d[k]]]
                  [] k \in {"metadata", "context", "tools_output"} ->
                        [kind |-> "dict", v |-> IF d[k] = 0 THEN EmptyDict ELSE dicts[d[k]]]
                  [] OTHER -> [kind |-> "value", v |-> d[k]]]
        Observed(r) ==
            [trace |-> runs[r].trace, failed |-> runs[r].failed, exc |-> runs[r].exc,
             pc |-> runs[r].pc, st |-> read(runs[r].st), result |-> read(runs[r].result)]
    IN \A a, b \in RunIds :
        (/\ runs[a].pc = "returned" /\ runs[b].pc = "returned"
         /\ runs[a].input = runs[b].input
         /\ runs[a].outs = runs[b].outs) =>
            Observed(a) = Observed(b)

\* an invocation with a MetricsCollector and one with no collector, from the
\* same input, have both returned after the same LLM failure
C26_Witness ==
    /\ runs[1].collector = "metrics" /\ runs[2].collector = "none"
    /\ runs[1].pc = "returned" /\ runs[2].pc = "returned"
    /\ runs[1].input = runs[2].input
    /\ runs[1].outs = runs[2].outs
    /\ runs[1].failed # NONE
    /\ runs[1].metric_calls # <<>> /\ runs[2].metric_calls = <<>>

\* C27: on an agent with a collector, record_invocation is called once,
\* before any node, and nothing else until the run is over; then exactly one
\* more call follows: record_success when no node failed, record_error when
\* a node failed.
C27_MetricsCalls ==
    \A r \in RunIds :
        runs[r].collector # "none" =>
            /\ runs[r].pc = "idle" => runs[r].metric_calls = <<>>
            /\ runs[r].pc = "running" => runs[r].metric_calls = <<"record_invocation">>
            /\ runs[r].pc = "returned" =>
                    runs[r].metric_calls =
                        <<"record_invocation",
                          IF runs[r].failed = NONE /\ Get(runs[r].st, "error", NONE) = NONE
                          THEN "record_success" ELSE "record_error">>

\* C28: a conditional unit whose expression evaluated to r returns
\* branches[str(r)] when that key exists, else branches['default'] when that
\* key exists, else the END sentinel of the graph builder.
C28_ConditionalReturn ==
    \A r \in RunIds : \A i \in 1..Len(runs[r].trace) :
        NodeType(runs[r].trace[i]) = "conditional" =>
            LET branches == NodeConfigOf(runs[r].trace[i]).branches
                result == runs[r].routes[i].result
            IN runs[r].routes[i].next =
                    IF result \in DOMAIN branches THEN branches[result]
                    ELSE IF "default" \in DOMAIN branches THEN branches["default"]
                    ELSE END

\* C29: when the evaluation of a conditional unit's expression raises, the
\* unit does not fail and returns the 'default' branch, or the END sentinel
\* when there is no default, whatever other keys the branch mapping has.
C29_EvaluationErrorDefaults ==
    \A r \in RunIds : \A i \in 1..Len(runs[r].trace) :
        (NodeType(runs[r].trace[i]) = "conditional" /\ runs[r].outs[i].exc # NONE) =>
            LET branches == NodeConfigOf(runs[r].trace[i]).branches
            IN /\ runs[r].failed # runs[r].trace[i]
               /\ runs[r].routes[i].next =
                    IF "default" \in DOMAIN branches THEN branches["default"] ELSE END

\* C30: the execution of a conditional node changes no State key but
\* current_node: every other key of the State, output and error among them,
\* and the message history are after the step what they were before it.
C30_ConditionalFrame ==
    [][\A r \in RunIds :
          (/\ Len(runs'[r].trace) = Len(runs[r].trace) + 1
           /\ NodeType(runs'[r].trace[Len(runs'[r].trace)]) = "conditional") =>
              /\ DOMAIN runs'[r].st \subseteq DOMAIN runs[r].st \cup {"current_node"}
              /\ \A k \in DOMAIN runs[r].st \ {"current_node"} :
                    k \in DOMAIN runs'[r].st /\ runs'[r].st[k] = runs[r].st[k]
              /\ MessagesOf(runs'[r].st, lists') = MessagesOf(runs[r].st, lists)]_vars

\* C31: in an agent built from a custom topology, each edge e that carries a
\* condition has a dispatch rule of its own at its source node: the rule is
\* bound to e, and whenever it is evaluated it returns e's target when the
\* condition is true and the END sentinel when it is false, whatever the
\* other edges of the list are.
C31_EdgeRulesIndependent ==
    (agent = "built" /\ cfg.workflow_type = "custom") =>
        \A j \in 1..Len(cfg.edges) :
            LET e == cfg.edges[j]
            IN e.condition # NONE =>
                /\ \E k \in 1..Len(graph.nodes) :
                      /\ graph.nodes[k].name = e.source
                      /\ graph.nodes[k].func.type = "edge_rule"
                      /\ graph.nodes[k].func.edge = e
                /\ \A r \in RunIds : \A i \in 1..Len(runs[r].trace) :
                      (runs[r].trace[i] = e.source /\ runs[r].outs[i].exc = NONE) =>
                          runs[r].routes[i].next =
                              IF runs[r].outs[i].val = "True" THEN e.target ELSE END

C33_OwnSystemPrompt ==
    [][\A r \in RunIds :
          (/\ Len(runs'[r].trace) = Len(runs[r].trace) + 1
           /\ NodeType(runs'[r].trace[Len(runs'[r].trace)]) = "llm"
           /\ runs'[r].outs[Len(runs'[r].outs)].exc = NONE) =>
              LET config == NodeConfigOf(runs'[r].trace[Len(runs'[r].trace)])
                  after == MessagesOf(runs'[r].st, lists')
                  sent == SubSeq(after, 1, Len(after) - 1)
              IN /\ \E i \in 1..Len(sent) : sent[i] = SystemMessage(config.prompt)
                 /\ \A i \in 1..Len(sent) :
                        sent[i].kind = "SystemMessage" => sent[i] = SystemMessage(config.prompt)]_vars

\* C34: when invoke returns from a run in which no node failed (the last
\* attempt of every node succeeded), the final State's error and the
\* result's error are null, also when an earlier attempt of a node had failed
\* and was retried.
C34_ErrorClearedAfterRetry ==
    \A r \in RunIds :
        (runs[r].pc = "returned" /\ runs[r].failed = NONE) =>
            /\ Get(runs[r].st, "error", NONE) = NONE
            /\ runs[r].result["error"] = NONE

\* C35: a step that executes the tool node n and succeeds with result r
\* leaves a tool-output map that holds r under n and, under every other key,
\* what it held before, and a message history that is the one before the
\* step followed by one assistant message describing r; a step whose tool
\* unit raises leaves both as they were.
C35_ToolStep ==
    [][\A r \in RunIds :
          (/\ Len(runs'[r].trace) = Len(runs[r].trace) + 1
           /\ NodeType(runs'[r].trace[Len(runs'[r].trace)]) = "tool") =>
              LET config == NodeConfigOf(runs'[r].trace[Len(runs'[r].trace)])
                  ext == runs'[r].outs[Len(runs'[r].outs)]
              IN IF ~ runs'[r].broke
                 THEN /\ ext.exc = NONE
                      /\ RunToolOutputs(r)' = Put(RunToolOutputs(r), config.name, ext.val)
                      /\ RunHistory(r)' =
                            Append(RunHistory(r),
                                   AIMessage("Tool " \o config.tool \o " result: " \o ext.val))
                 ELSE /\ RunToolOutputs(r)' = RunToolOutputs(r)
                      /\ RunHistory(r)' = RunHistory(r)]_vars

\* the second node, a tool node, has stored its result next to the entry the
\* caller's map held and has said so at the end of the history
C35_Witness ==
    /\ Len(runs[1].trace) = 2 /\ NodeType(runs[1].trace[2]) = "tool"
    /\ ~ runs[1].broke
    /\ DOMAIN RunToolOutputs(1) = {"earlier", runs[1].trace[2]}
    /\ RunToolOutputs(1)["earlier"] = "r0"
    /\ RunToolOutputs(1)[runs[1].trace[2]] = "42"
    /\ RunHistory(1)[Len(RunHistory(1))] = AIMessage("Tool calculator result: 42")

\* C36: a step that executes a human-input node on a State that carries an
\* answer leaves a State without the answer, whose awaiting flag is false and
\* whose message history has gained exactly one human message, the answer; a
\* step on a State that carries no answer, as after an earlier human-input
\* step has consumed it, adds no message and sets the awaiting flag.
C36_AnswerConsumedOnce ==
    [][\A r \in RunIds :
          (/\ Len(runs'[r].trace) = Len(runs[r].trace) + 1
           /\ NodeType(runs'[r].trace[Len(runs'[r].trace)]) = "human_input") =>
              /\ "human_input" \notin DOMAIN runs'[r].st
              /\ "needs_human_input" \in DOMAIN runs'[r].st
              /\ IF "human_input" \in DOMAIN runs[r].st
                 THEN /\ runs'[r].st["needs_human_input"] = FALSE
                      /\ RunHistory(r)' =
                            Append(RunHistory(r), HumanMessage(runs[r].st["human_input"]))
                 ELSE /\ runs'[r].st["needs_human_input"] = TRUE
                      /\ RunHistory(r)' = RunHistory(r)]_vars

\* two human-input nodes have run on one answer: the first consumed it, the
\* second asks again, and the history holds the answer once
C36_Witness ==
    /\ Len(runs[1].trace) = 2
    /\ NodeType(runs[1].trace[1]) = "human_input"
    /\ NodeType(runs[1].trace[2]) = "human_input"
    /\ "human_input" \in DOMAIN runs[1].input.d
    /\ "human_input" \notin DOMAIN runs[1].st
    /\ runs[1].st["needs_human_input"] = TRUE
    /\ Cardinality({i \in 1..Len(RunHistory(1)) : RunHistory(1)[i] = HumanMessage("yes")}) = 1

\* C37: the graph built from a cyclic configuration of N nodes without
\* explicit edges is a ring: every non-conditional node i has exactly one
\* static edge, to node (i + 1) mod N (the last node to the first), a
\* conditional node has none, and no static edge goes to the END sentinel.
C37_CyclicRing ==
    (agent = "built" /\ cfg.workflow_type = "cyclic" /\ cfg.edges = <<>>) =>
        LET N == Len(cfg.nodes)
            from(i) == {j \in 1..Len(graph.edges) : graph.edges[j][1] = cfg.nodes[i].name}
        IN /\ \A i \in 1..N :
                IF cfg.nodes[i].type = "conditional" THEN from(i) = {}
                ELSE /\ Cardinality(from(i)) = 1
                     /\ \A j \in from(i) : graph.edges[j][2] = cfg.nodes[(i % N) + 1].name
           /\ \A j \in 1..Len(graph.edges) :
                /\ graph.edges[j][2] # END
                /\ \E i \in 1..N : j \in from(i)

\* a ring of MaxNodes nodes with a conditional node inside it is closed by
\* the edge from the last node to the first
C37_Witness ==
    /\ agent = "built" /\ cfg.workflow_type = "cyclic" /\ cfg.edges = <<>>
    /\ Len(cfg.nodes) = MaxNodes
    /\ cfg.nodes[2].type = "conditional"
    /\ cfg.nodes[1].type # "conditional" /\ cfg.nodes[MaxNodes].type # "conditional"
    /\ \E j \in 1..Len(graph.edges) :
            graph.edges[j] = <<cfg.nodes[MaxNodes].name, cfg.nodes[1].name>>
    /\ Len(graph.edges) = MaxNodes - 1

\* C38: the static edges of the graph built from a parallel configuration
\* are exactly one edge from each non-conditional node to the END sentinel:
\* no edge goes from a node to a node, and a conditional node has none.
C38_ParallelEdges ==
    (agent = "built" /\ cfg.workflow_type = "parallel") =>
        LET N == Len(cfg.nodes)
            from(i) == {j \in 1..Len(graph.edges) : graph.edges[j][1] = cfg.nodes[i].name}
        IN /\ \A i \in 1..N :
                Cardinality(from(i)) = IF cfg.nodes[i].type = "conditional" THEN 0 ELSE 1
           /\ \A j \in 1..Len(graph.edges) :
                /\ graph.edges[j][2] = END
                /\ \E i \in 1..N : j \in from(i)

\* a parallel graph of a conditional node between two other nodes has the
\* two edges to the END sentinel and no other
C38_Witness ==
    /\ agent = "built" /\ cfg.workflow_type = "parallel"
    /\ Len(cfg.nodes) = 3
    /\ cfg.nodes[2].type = "conditional"
    /\ cfg.nodes[1].type # "conditional" /\ cfg.nodes[3].type # "conditional"
    /\ graph.edges = << <<"n1", END>>, <<"n3", END>> >>

\* C39: when invoke is given a thread identifier, the run configuration it
\* hands to the compiled graph has that identifier under
\* configurable.thread_id, whatever overrides the caller passes with it.
C39_ThreadIdKept ==
    \A r \in RunIds :
        (runs[r].pc # "idle" /\ runs[r].thread_id # NONE) =>
            /\ "configurable" \in DOMAIN runs[r].run_config
            /\ "thread_id" \in DOMAIN runs[r].run_config["configurable"]
            /\ runs[r].run_config["configurable"]["thread_id"] = runs[r].thread_id

\* C40: once a node of a run has been called, the State's current_node is the
\* name of the node called last, whether that call returned or raised: each
\* unit writes its name there before it calls its collaborator.
C40_CurrentNodeRecorded ==
    \A r \in RunIds :
        runs[r].trace # <<>> =>
            Get(runs[r].st, "current_node", NONE) = runs[r].trace[Len(runs[r].trace)]

====
